---- MODULE Spec2Model ----
(***************************************************************************)
(* Model of the Photo Note annotation app (src/app.py).                    *)
(*                                                                         *)
(* The app is a Streamlit script: every user event (upload, drawing edit,  *)
(* keystroke, button click) re-executes the whole script for the session   *)
(* that raised it.  Script(v) is one execution of the script on the view v *)
(* of a session (its st.session_state entries, its widget values and the   *)
(* two files in the working directory).  Every action below is one event   *)
(* followed by the script run(s) it triggers.                              *)
(*                                                                         *)
(* canvas_state.json and project_image.png are files of the process, all   *)
(* sessions read and write the same two files.                             *)
(***************************************************************************)
EXTENDS Integers, Sequences, FiniteSets, TLC

\* ------------------------------------------------------------------ bounds
\* Largest number of shapes on one drawing surface.
MaxShapes == 3

\* ------------------------------------------------------------ value spaces
Sessions == {"s1", "s2"}

\* Files the user can pick in the uploader; "none" is the empty uploader.
UploadIds == {"fA", "fB", "fX"}
NoUpload == "none"

\* Logical rectangles and freehand strokes the user can draw.
RectIds == {1, 2, 4}
PathIds == {3}
Positions == {<<20, 5>>, <<20, 10>>, <<50, 5>>}
PathPosition == <<20, 5>>

NoteTexts == {"", "a", "b"}
GeneralTexts == {"", "hi"}
Overlays == {"none", "ok", "bad"}

Absent == [tag |-> "absent"]
Undefined == [tag |-> "undefined"]
NoneValue == [tag |-> "None"]
Json(objs) == [tag |-> "json", objects |-> objs]
Garbage == [tag |-> "garbage"]

Rect(i, p) == [id |-> i, type |-> "rect", top |-> p[1], left |-> p[2]]
Path(i) == [id |-> i, type |-> "path", top |-> PathPosition[1], left |-> PathPosition[2]]
Shapes == {Rect(i, p) : i \in RectIds, p \in Positions} \cup {Path(i) : i \in PathIds}

NoNotes == [i \in 0..(MaxShapes - 1) |-> ""]

\* ------------------------------------------------------------------- state
VARIABLES
    stateFile,      \* content of canvas_state.json, or Absent
    imageFile,      \* content of project_image.png, or "absent"
    canvas_init,    \* st.session_state.canvas_init per session
    last_file_id,   \* st.session_state.last_file_id per session
    cached_image,   \* st.session_state.cached_image per session
    uploaded_file,  \* value of the file uploader per session
    canvas_value,   \* value of the "canvas" component per session
    general_note,   \* value of the "General Notes" text area per session
    note_rect,      \* values of the note_rect_{i} text inputs per session
    out,            \* what the last script run of the session produced
    last,           \* the last event: its kind and its session
    typed           \* per session: logical rectangle -> note typed for it

vars == <<stateFile, imageFile, canvas_init, last_file_id, cached_image,
          uploaded_file, canvas_value, general_note, note_rect, out, last,
          typed>>

\* ------------------------------------------------------- image conversions
\* The bytes behind each uploader entry; fX is a file that is no image.
Bytes(f) == IF f = "fA" THEN "pngA" ELSE IF f = "fB" THEN "jpgB" ELSE "garbage"

\* Image.open succeeds on image bytes and raises on anything else.
Decodable(b) == b \in {"pngA", "jpgB", "pngB"}

\* Image.open(...): the bitmap held by the bytes.
Decode(b) == IF b = "pngA" THEN "imgA" ELSE "imgB"

\* image.mode of an opened image: Image.open keeps the mode of the file, and
\* fB is a JPEG photograph, which has no alpha channel.
Mode(img) == IF img = "imgA" THEN "RGBA" ELSE "RGB"

\* The pixels of an opened image stand as the picture is meant to be seen.
\* Image.open returns the stored pixels and leaves the orientation tag in
\* the metadata; fB carries a tag that asks for a rotation, fA carries none.
Upright(img) == img = "imgA"

\* image.save(IMAGE_FILE): the bitmap written as PNG bytes.
EncodePng(img) == IF img = "imgA" THEN "pngA" ELSE "pngB"

\* ---------------------------------------------------- snapshot conversions
Dict(objs) == [tag |-> "dict", objects |-> objs]

\* json.dump(canvas_result.json_data, f)
JsonDump(d) == Json(d.objects)

\* json.load(f) without the except: nothing is assigned to canvas_init.
JsonLoadNoExcept(text) ==
    IF text.tag = "json" THEN Dict(text.objects) ELSE Undefined

\* json.load(f); a file that is no JSON document raises, the bare except
\* turns that into None.
JsonLoad(text) == IF text.tag = "json" THEN Dict(text.objects) ELSE NoneValue

\* ---------------------------------------------------------- linked notes
\* obj["type"] raises KeyError on an entry without that key, and with it the
\* list comprehension over objects.
TypeMissing(objs) == \E k \in 1..Len(objs) : "type" \notin DOMAIN objs[k]

\* rect_objects = [obj for obj in objects if obj["type"] == "rect"]
RECURSIVE FilterRects(_)
FilterRects(objs) ==
    IF objs = <<>> THEN <<>>
    ELSE IF Head(objs).type = "rect"
         THEN <<Head(objs)>> \o FilterRects(Tail(objs))
         ELSE FilterRects(Tail(objs))

\* obj.get('top', 0) and obj.get('left', 0).
Top(obj) == IF "top" \in DOMAIN obj THEN obj.top ELSE 0

Left(obj) == IF "left" \in DOMAIN obj THEN obj.left ELSE 0

\* The key with its two parts swapped: (left, top).
KeyLessLeftFirst(a, b) == \/ Left(a) < Left(b)
                          \/ Left(a) = Left(b) /\ Top(a) < Top(b)

\* The sort key (obj.get('top', 0), obj.get('left', 0)), compared as Python
\* compares tuples.
KeyLess(a, b) == \/ Top(a) < Top(b)
                 \/ Top(a) = Top(b) /\ Left(a) < Left(b)

\* list.sort is stable: an element goes behind every element whose key is
\* not greater than its own.
RECURSIVE InsertByKey(_, _)
InsertByKey(sorted, x) ==
    IF sorted = <<>> THEN <<x>>
    ELSE IF KeyLess(x, Head(sorted))
         THEN <<x>> \o sorted
         ELSE <<Head(sorted)>> \o InsertByKey(Tail(sorted), x)

RECURSIVE SortByKey(_)
SortByKey(objs) ==
    IF objs = <<>> THEN <<>>
    ELSE InsertByKey(SortByKey(SubSeq(objs, 1, Len(objs) - 1)), objs[Len(objs)])

\* The filter and the sort with equal keys coming out in reverse order.
RectObjectsTiesReversed(objs) ==
    LET f == FilterRects(objs)
    IN  SortByKey([k \in 1..Len(f) |-> f[Len(f) + 1 - k]])

\* rect_objects after the filter and the sort.
RectObjects(objs) == SortByKey(FilterRects(objs))

\* f"{i+1}" for the indices the model reaches.
Str(n) == IF n = 0 THEN "0"
          ELSE <<"1", "2", "3", "4", "5", "6", "7", "8", "9">>[n]

\* combined_notes, as the sequence of the pieces the f-strings put together.
GeneralBlock(text) == <<"GENERAL NOTES:\n", text, "\n\n">>

\* The block numbered with the loop index itself.
SelectionBlockFromZero(i, note) == <<"SELECTION #", Str(i), ":\n", note, "\n\n">>

SelectionBlock(i, note) == <<"SELECTION #", Str(i + 1), ":\n", note, "\n\n">>

\* The loop over enumerate(rect_objects), from index i on.
RECURSIVE SelectionBlocks(_, _, _)
SelectionBlocks(i, n, notes) ==
    IF i >= n THEN <<>>
    ELSE SelectionBlock(i, notes[i]) \o SelectionBlocks(i + 1, n, notes)

\* ------------------------------------------------------------- script run
\* What a session's script run reads: its session_state entries, its widget
\* values and the two files.
View(s) == [canvas_init   |-> canvas_init[s],
            last_file_id  |-> last_file_id[s],
            cached_image  |-> cached_image[s],
            uploaded_file |-> uploaded_file[s],
            canvas_value  |-> canvas_value[s],
            general_note  |-> general_note[s],
            note_rect     |-> note_rect[s],
            stateFile     |-> stateFile,
            imageFile     |-> imageFile]

\* The component value before the drawing surface has reported anything.
NoCanvasValue == [json_data |-> NoneValue, image_data |-> "none"]

\* What a run that has produced nothing shows.
NoOutput == [outcome |-> "idle", image |-> "None", seed |-> Undefined,
             key |-> "none", rects |-> <<>>, text |-> <<>>,
             text_offered |-> FALSE, image_artifact |-> "none",
             loaded |-> FALSE]

\* The load without the "not in st.session_state" guard: every run reads
\* STATE_FILE.
InitCanvasInitEveryRun(v) ==
    IF v.stateFile.tag # "absent" THEN JsonLoad(v.stateFile) ELSE NoneValue

\* if "canvas_init" not in st.session_state: load it from STATE_FILE.
InitCanvasInit(v) ==
    IF v.canvas_init.tag = "undefined"
    THEN IF v.stateFile.tag # "absent" THEN JsonLoad(v.stateFile) ELSE NoneValue
    ELSE v.canvas_init

\* json.load is executed in this run.
LoadsSnapshot(v) == v.canvas_init.tag = "undefined" /\ v.stateFile.tag # "absent"

\* A new upload opened without image.save(IMAGE_FILE).
NewUploadNoSave(v) ==
    [raised |-> FALSE,
     image |-> Decode(Bytes(v.uploaded_file)),
     imageFile |-> v.imageFile,
     last_file_id |-> v.uploaded_file,
     cached_image |-> Decode(Bytes(v.uploaded_file))]

\* The branch for a file_id other than last_file_id, once Image.open has
\* succeeded: the image is saved to IMAGE_FILE and cached.
NewUpload(v) ==
    [raised |-> FALSE,
     image |-> Decode(Bytes(v.uploaded_file)),
     imageFile |-> EncodePng(Decode(Bytes(v.uploaded_file))),
     last_file_id |-> v.uploaded_file,
     cached_image |-> Decode(Bytes(v.uploaded_file))]

\* No image is taken from IMAGE_FILE.
StoredImageIgnored(v) == "None"

\* elif os.path.exists(IMAGE_FILE): image = Image.open(IMAGE_FILE)
StoredImage(v) ==
    IF v.imageFile # "absent" THEN Decode(v.imageFile) ELSE "None"

\* The image logic with last_file_id assigned before the file is opened.
ImageLogicIdFirst(v) ==
    IF v.uploaded_file # NoUpload
    THEN IF ~Decodable(Bytes(v.uploaded_file))
         THEN [raised |-> TRUE, image |-> "None", imageFile |-> v.imageFile,
               last_file_id |-> v.uploaded_file, cached_image |-> v.cached_image]
         ELSE [raised |-> FALSE,
               image |-> Decode(Bytes(v.uploaded_file)),
               imageFile |-> IF v.last_file_id # v.uploaded_file
                             THEN EncodePng(Decode(Bytes(v.uploaded_file)))
                             ELSE v.imageFile,
               last_file_id |-> v.uploaded_file,
               cached_image |-> IF v.last_file_id # v.uploaded_file
                                THEN Decode(Bytes(v.uploaded_file))
                                ELSE v.cached_image]
    ELSE [raised |-> FALSE,
          image |-> IF v.imageFile # "absent" THEN Decode(v.imageFile) ELSE "None",
          imageFile |-> v.imageFile,
          last_file_id |-> v.last_file_id, cached_image |-> v.cached_image]

\* Image logic: the image of this run and what it leaves in the session and
\* in IMAGE_FILE.  Image.open raises before anything is assigned.
ImageLogic(v) ==
    IF v.uploaded_file # NoUpload
    THEN IF ~Decodable(Bytes(v.uploaded_file))
         THEN [raised |-> TRUE, image |-> "None", imageFile |-> v.imageFile,
               last_file_id |-> v.last_file_id, cached_image |-> v.cached_image]
         ELSE IF v.last_file_id # v.uploaded_file
              THEN NewUpload(v)
              ELSE [raised |-> FALSE,
                    image |-> Decode(Bytes(v.uploaded_file)),
                    imageFile |-> v.imageFile,
                    last_file_id |-> v.last_file_id,
                    cached_image |-> v.cached_image]
    ELSE [raised |-> FALSE,
          image |-> StoredImage(v),
          imageFile |-> v.imageFile,
          last_file_id |-> v.last_file_id, cached_image |-> v.cached_image]

\* The save keeping the entries of the file that are no longer reported.
SaveStateAccumulated(v, image) ==
    IF image # "None" /\ v.canvas_value.json_data.tag # "None"
    THEN LET new == v.canvas_value.json_data.objects
             old == IF v.stateFile.tag = "json" THEN v.stateFile.objects ELSE <<>>
             Gone(obj) == \A k \in 1..Len(new) : new[k].id # obj.id
         IN  Json(new \o SelectSeq(old, Gone))
    ELSE v.stateFile

\* Save State: the snapshot file after the canvas section; the file is opened
\* with "w" and the whole json_data is dumped.
SaveState(v, image) ==
    IF image # "None" /\ v.canvas_value.json_data.tag # "None"
    THEN JsonDump(v.canvas_value.json_data)
    ELSE v.stateFile

\* The save with canvas_init set to what was saved.
CanvasInitAfterSaveUpdated(v, ci, image) ==
    IF image # "None" /\ v.canvas_value.json_data.tag # "None"
    THEN v.canvas_value.json_data
    ELSE ci

\* canvas_init after the canvas section: the save does not update it.
CanvasInitAfterSave(v, ci, image) == ci

\* A widget key made from the image of the run.
CanvasKeyOfImage(v, image) == image

\* st_canvas(..., key="canvas"): the widget key of the drawing surface.
CanvasKey(v, image) == "canvas"

\* The Linked Notes section is entered and its list comprehension raises.
NotesRaise(v, image) ==
    /\ image # "None"
    /\ v.canvas_value.json_data.tag # "None"
    /\ TypeMissing(v.canvas_value.json_data.objects)

\* The rectangles that get a note field in this run.
LinkedRects(v, image) ==
    IF image # "None" /\ v.canvas_value.json_data.tag # "None"
    THEN RectObjects(v.canvas_value.json_data.objects)
    ELSE <<>>

\* combined_notes at the end of the notes column.
CombinedNotes(v, image) ==
    GeneralBlock(v.general_note)
        \o SelectionBlocks(0, Len(LinkedRects(v, image)), v.note_rect)

\* The text download offered only next to a composed image.
TextOfferedWithImage(v, image) ==
    image # "None" /\ v.canvas_value.image_data = "ok"

\* The left download column: the text download is there whenever an image is.
TextOffered(v, image) == image # "None"

\* The right download column: the image artifact or the message in its place.
ImageArtifact(v, image) ==
    IF image = "None" THEN "none"
    ELSE IF v.canvas_value.image_data = "none" THEN "info"
    ELSE IF v.canvas_value.image_data = "bad" THEN "error"
    ELSE "download"

\* Widgets a completed run did not create lose their value.
KeptNotes(v, image) ==
    [i \in DOMAIN v.note_rect |->
        IF i < Len(LinkedRects(v, image)) THEN v.note_rect[i] ELSE ""]

KeptCanvasValue(v, image) ==
    IF image # "None" THEN v.canvas_value ELSE NoCanvasValue

\* One execution of the script from top to bottom.  A run that raises stops
\* at the raise: what is above it has been rendered and saved, nothing below
\* it is rendered, and the widget values are left as they are.
Script(v) ==
    LET ci  == InitCanvasInit(v)
        img == ImageLogic(v)
    IN  IF img.raised
        THEN [canvas_init |-> ci, last_file_id |-> img.last_file_id,
              cached_image |-> img.cached_image, canvas_value |-> v.canvas_value,
              note_rect |-> v.note_rect, stateFile |-> v.stateFile,
              imageFile |-> img.imageFile,
              out |-> [NoOutput EXCEPT !.outcome = "exception",
                                       !.loaded = LoadsSnapshot(v)]]
        ELSE IF NotesRaise(v, img.image)
        THEN [canvas_init |-> CanvasInitAfterSave(v, ci, img.image),
              last_file_id |-> img.last_file_id,
              cached_image |-> img.cached_image,
              canvas_value |-> v.canvas_value,
              note_rect |-> v.note_rect,
              stateFile |-> SaveState(v, img.image),
              imageFile |-> img.imageFile,
              out |-> [NoOutput EXCEPT !.outcome = "exception",
                                       !.image = img.image,
                                       !.seed = ci,
                                       !.key = CanvasKey(v, img.image),
                                       !.loaded = LoadsSnapshot(v)]]
        ELSE [canvas_init |-> CanvasInitAfterSave(v, ci, img.image),
              last_file_id |-> img.last_file_id,
              cached_image |-> img.cached_image,
              canvas_value |-> KeptCanvasValue(v, img.image),
              note_rect |-> KeptNotes(v, img.image),
              stateFile |-> SaveState(v, img.image),
              imageFile |-> img.imageFile,
              out |-> [outcome |-> "done",
                       image |-> img.image,
                       seed |-> IF img.image # "None" THEN ci ELSE Undefined,
                       key |-> IF img.image # "None"
                               THEN CanvasKey(v, img.image) ELSE "none",
                       rects |-> LinkedRects(v, img.image),
                       text |-> CombinedNotes(v, img.image),
                       text_offered |-> TextOffered(v, img.image),
                       image_artifact |-> ImageArtifact(v, img.image),
                       loaded |-> LoadsSnapshot(v)]]

\* The handler without del st.session_state.canvas_init.
ResetProjectKeepSeed(v) ==
    [v EXCEPT !.stateFile = Absent, !.imageFile = "absent",
              !.last_file_id = "undefined", !.cached_image = "undefined"]

\* if st.button("Reset Project"): the handler up to st.rerun().
ResetProject(v) ==
    [v EXCEPT !.stateFile = Absent, !.imageFile = "absent",
              !.canvas_init = Undefined, !.last_file_id = "undefined",
              !.cached_image = "undefined"]

\* ------------------------------------------------------------------ events
Started(s) == out[s].outcome # "idle"

\* The drawing surface is on the page of session s.
CanvasShown(s) == out[s].image # "None"

\* The shape list the drawing surface of session s last reported.
Reported(s) == canvas_value[s].json_data.objects

HasReported(s) == CanvasShown(s) /\ canvas_value[s].json_data.tag # "None"

Ids(objs) == {objs[k].id : k \in 1..Len(objs)}

NoTyped == [id \in RectIds |-> "-"]

\* The note each logical rectangle carries after an event: the text typed
\* into the field it was shown with, until the rectangle is moved or is no
\* longer shown.
Typed(s, rects, changed, text) ==
    [id \in RectIds |->
        IF id \notin Ids(rects) THEN "-"
        ELSE IF id \in changed THEN text
        ELSE typed[s][id]]

\* The session and the files take over the result r of the script run of
\* session s that the event kind has triggered.
Commit(s, kind, r, tp) ==
    /\ stateFile' = r.stateFile
    /\ imageFile' = r.imageFile
    /\ canvas_init' = [canvas_init EXCEPT ![s] = r.canvas_init]
    /\ last_file_id' = [last_file_id EXCEPT ![s] = r.last_file_id]
    /\ cached_image' = [cached_image EXCEPT ![s] = r.cached_image]
    /\ canvas_value' = [canvas_value EXCEPT ![s] = r.canvas_value]
    /\ note_rect' = [note_rect EXCEPT ![s] = r.note_rect]
    /\ out' = [out EXCEPT ![s] = r.out]
    /\ last' = [kind |-> kind, session |-> s]
    /\ typed' = [typed EXCEPT ![s] = tp]

\* A browser opens the page (or reloads it): a new session with empty
\* session_state and default widget values runs the script.
StartSession(s) ==
    LET v == [View(s) EXCEPT !.canvas_init = Undefined,
                             !.last_file_id = "undefined",
                             !.cached_image = "undefined",
                             !.uploaded_file = NoUpload,
                             !.canvas_value = NoCanvasValue,
                             !.general_note = "",
                             !.note_rect = NoNotes]
        r == Script(v)
    IN  /\ uploaded_file' = [uploaded_file EXCEPT ![s] = NoUpload]
        /\ general_note' = [general_note EXCEPT ![s] = ""]
        /\ Commit(s, "start", r, NoTyped)

\* The user picks file f in the uploader, or clears the uploader.
Upload(s, f) ==
    /\ Started(s)
    /\ f # uploaded_file[s]
    /\ LET r == Script([View(s) EXCEPT !.uploaded_file = f])
       IN  /\ uploaded_file' = [uploaded_file EXCEPT ![s] = f]
           /\ UNCHANGED general_note
           /\ Commit(s, "upload", r, Typed(s, r.out.rects, {}, "-"))

\* The drawing surface reports value cv; moved are the rectangles whose
\* position the edit has changed.
CanvasEvent(s, kind, cv, moved) ==
    LET r == Script([View(s) EXCEPT !.canvas_value = cv])
    IN  /\ UNCHANGED <<uploaded_file, general_note>>
        /\ Commit(s, kind, r, Typed(s, r.out.rects, moved, "-"))

\* The drawing surface has drawn its initial_drawing and reports it.
SurfaceReport(s, ov) ==
    /\ CanvasShown(s)
    /\ LET seed == out[s].seed
           objs == IF seed.tag = "dict" THEN seed.objects ELSE <<>>
       IN  /\ canvas_value[s] # [json_data |-> Dict(objs), image_data |-> ov]
           /\ CanvasEvent(s, "report",
                          [json_data |-> Dict(objs), image_data |-> ov], {})

\* The user draws shape sh.
AddShape(s, sh, ov) ==
    /\ HasReported(s)
    /\ Len(Reported(s)) < MaxShapes
    /\ sh.id \notin Ids(Reported(s))
    /\ CanvasEvent(s, "add",
                   [json_data |-> Dict(Append(Reported(s), sh)),
                    image_data |-> ov], {})

\* The user deletes the k-th shape.
RemoveShape(s, k, ov) ==
    /\ HasReported(s)
    /\ k \in 1..Len(Reported(s))
    /\ CanvasEvent(s, "remove",
                   [json_data |->
                        Dict(SubSeq(Reported(s), 1, k - 1)
                             \o SubSeq(Reported(s), k + 1, Len(Reported(s)))),
                    image_data |-> ov], {})

\* The user drags the k-th shape, a rectangle, to position p.
MoveShape(s, k, p, ov) ==
    /\ HasReported(s)
    /\ k \in 1..Len(Reported(s))
    /\ Reported(s)[k].type = "rect"
    /\ <<Reported(s)[k].top, Reported(s)[k].left>> # p
    /\ CanvasEvent(s, "move",
                   [json_data |->
                        Dict([Reported(s) EXCEPT ![k] = Rect(Reported(s)[k].id, p)]),
                    image_data |-> ov], {Reported(s)[k].id})

\* The user types text into the field note_rect_{i}.
TypeNote(s, i, text) ==
    /\ out[s].outcome = "done"
    /\ i \in 0..(Len(out[s].rects) - 1)
    /\ text # note_rect[s][i]
    /\ LET r == Script([View(s) EXCEPT !.note_rect[i] = text])
       IN  /\ UNCHANGED <<uploaded_file, general_note>>
           /\ Commit(s, "note", r,
                     Typed(s, r.out.rects, {out[s].rects[i + 1].id}, text))

\* The user types text into the General Notes area.
TypeGeneral(s, text) ==
    /\ out[s].outcome = "done"
    /\ text # general_note[s]
    /\ LET r == Script([View(s) EXCEPT !.general_note = text])
       IN  /\ general_note' = [general_note EXCEPT ![s] = text]
           /\ UNCHANGED uploaded_file
           /\ Commit(s, "general", r, Typed(s, r.out.rects, {}, "-"))

\* The user clicks Reset Project: the handler, then the run st.rerun() starts.
Reset(s) ==
    /\ Started(s)
    /\ LET r == Script(ResetProject(View(s)))
       IN  /\ UNCHANGED <<uploaded_file, general_note>>
           /\ Commit(s, "reset", r, Typed(s, r.out.rects, {}, "-"))

\* STATE_FILE is left with content that is no JSON document (cut short, or
\* overwritten from outside the program).  No script runs.
DamageSnapshot ==
    /\ stateFile.tag = "json"
    /\ stateFile' = Garbage
    /\ last' = [kind |-> "damage", session |-> "-"]
    /\ UNCHANGED <<imageFile, canvas_init, last_file_id, cached_image,
                   uploaded_file, canvas_value, general_note, note_rect,
                   out, typed>>

\* A rerun with no new input (a toolbar widget changed, say).
Refresh(s) ==
    /\ Started(s)
    /\ LET r == Script(View(s))
       IN  /\ UNCHANGED <<uploaded_file, general_note>>
           /\ Commit(s, "refresh", r, Typed(s, r.out.rects, {}, "-"))

\* ---------------------------------------------------------- specifications
Init ==
    /\ stateFile = Absent
    /\ imageFile = "absent"
    /\ canvas_init = [s \in Sessions |-> Undefined]
    /\ last_file_id = [s \in Sessions |-> "undefined"]
    /\ cached_image = [s \in Sessions |-> "undefined"]
    /\ uploaded_file = [s \in Sessions |-> NoUpload]
    /\ canvas_value = [s \in Sessions |-> NoCanvasValue]
    /\ general_note = [s \in Sessions |-> ""]
    /\ note_rect = [s \in Sessions |-> NoNotes]
    /\ out = [s \in Sessions |-> NoOutput]
    /\ last = [kind |-> "init", session |-> "-"]
    /\ typed = [s \in Sessions |-> NoTyped]

\* Spec: one browser session, opened once, that draws two rectangles and a
\* stroke over image fA and types notes.
NotePositions == {<<20, 10>>, <<50, 5>>}
NoteShapes == {Rect(i, p) : i \in {1, 2}, p \in NotePositions} \cup {Path(3)}

Next ==
    \/ ~Started("s1") /\ StartSession("s1")
    \/ \E f \in {"fA", NoUpload} : Upload("s1", f)
    \/ SurfaceReport("s1", "ok")
    \/ \E sh \in NoteShapes : AddShape("s1", sh, "ok")
    \/ \E k \in 1..MaxShapes : RemoveShape("s1", k, "ok")
    \/ \E k \in 1..MaxShapes, p \in NotePositions : MoveShape("s1", k, p, "ok")
    \/ \E i \in 0..(MaxShapes - 1), text \in NoteTexts : TypeNote("s1", i, text)
    \/ \E text \in GeneralTexts : TypeGeneral("s1", text)
    \/ Reset("s1")
    \/ Refresh("s1")

Spec == Init /\ [][Next]_vars

\* SpecDraw: one browser session that only draws, with every shape.
NextDraw ==
    \/ ~Started("s1") /\ StartSession("s1")
    \/ \E f \in {"fA", NoUpload} : Upload("s1", f)
    \/ SurfaceReport("s1", "ok")
    \/ \E sh \in Shapes : AddShape("s1", sh, "ok")
    \/ \E k \in 1..MaxShapes : RemoveShape("s1", k, "ok")
    \/ \E k \in 1..MaxShapes, p \in Positions : MoveShape("s1", k, p, "ok")

SpecDraw == Init /\ [][NextDraw]_vars

\* SpecProject: one browser, reloaded at will, with every upload and every
\* overlay, two rectangles at fixed places and one note text.
ProjectShapes == {Rect(1, <<50, 5>>), Rect(2, <<20, 10>>)}

NextProject ==
    \/ StartSession("s1")
    \/ \E f \in UploadIds \cup {NoUpload} : Upload("s1", f)
    \/ \E ov \in Overlays : SurfaceReport("s1", ov)
    \/ \E sh \in ProjectShapes, ov \in Overlays : AddShape("s1", sh, ov)
    \/ \E k \in 1..MaxShapes, ov \in Overlays : RemoveShape("s1", k, ov)
    \/ \E i \in 0..(MaxShapes - 1), text \in {"", "a"} : TypeNote("s1", i, text)
    \/ \E text \in GeneralTexts : TypeGeneral("s1", text)
    \/ Reset("s1")
    \/ Refresh("s1")

SpecProject == Init /\ [][NextProject]_vars

\* SpecSessions: two browsers on the same server, each reloaded at will,
\* with one rectangle and a general note.
SessionShapes == {Rect(1, <<50, 5>>)}

NextSessions ==
    \E s \in Sessions :
        \/ StartSession(s)
        \/ \E f \in {"fA", NoUpload} : Upload(s, f)
        \/ SurfaceReport(s, "ok")
        \/ \E sh \in SessionShapes : AddShape(s, sh, "ok")
        \/ \E k \in 1..MaxShapes : RemoveShape(s, k, "ok")
        \/ \E text \in GeneralTexts : TypeGeneral(s, text)
        \/ Reset(s)
        \/ Refresh(s)

SpecSessions == Init /\ [][NextSessions]_vars

\* SpecDamaged: one browser session, reloaded at any time, and a snapshot
\* file that can be damaged between runs.
NextDamaged ==
    \/ StartSession("s1")
    \/ \E f \in {"fA", NoUpload} : Upload("s1", f)
    \/ SurfaceReport("s1", "ok")
    \/ \E sh \in ProjectShapes : AddShape("s1", sh, "ok")
    \/ \E k \in 1..MaxShapes : RemoveShape("s1", k, "ok")
    \/ Reset("s1")
    \/ Refresh("s1")
    \/ DamageSnapshot

SpecDamaged == Init /\ [][NextDamaged]_vars

\* SpecMalformed: one browser session whose drawing surface also reports
\* entries that lack their type or their top/left.
MalformedShapes == {[id |-> 4, top |-> 20, left |-> 10],
                    [id |-> 4, type |-> "rect", left |-> 10],
                    [id |-> 4, type |-> "rect"]}

NextMalformed ==
    \/ ~Started("s1") /\ StartSession("s1")
    \/ \E f \in {"fA", NoUpload} : Upload("s1", f)
    \/ SurfaceReport("s1", "ok")
    \/ \E sh \in NoteShapes \cup MalformedShapes : AddShape("s1", sh, "ok")
    \/ \E k \in 1..MaxShapes : RemoveShape("s1", k, "ok")
    \/ \E i \in 0..(MaxShapes - 1), text \in {"", "a"} : TypeNote("s1", i, text)
    \/ Refresh("s1")

SpecMalformed == Init /\ [][NextMalformed]_vars

\* ------------------------------------------------------------------ claims
\* The shape list the drawing surface of session s shows, empty when it has
\* reported none.
ShapeList(s) ==
    IF canvas_value[s].json_data.tag = "None" THEN <<>> ELSE Reported(s)

\* C1: after Reset Project and the refresh that follows it, the displayed
\* image is none, the shape list is empty, and every rectangle note and the
\* general note are empty.
C1_ResetAllOrNothing ==
    \A s \in Sessions :
        last = [kind |-> "reset", session |-> s] =>
            /\ out[s].image = "None"
            /\ ShapeList(s) = <<>>
            /\ note_rect[s] = NoNotes
            /\ general_note[s] = ""

\* C2: a note typed for a logical rectangle is still the note shown for and
\* exported with that rectangle after later refreshes in which other
\* rectangles were added, removed or moved.
C2_NoteBindingPreserved ==
    \A s \in Sessions : \A id \in RectIds :
        typed[s][id] # "-" =>
            \E j \in 1..Len(out[s].rects) :
                /\ out[s].rects[j].id = id
                /\ note_rect[s][j - 1] = typed[s][id]
                /\ out[s].text[5 * j + 2] = typed[s][id]

\* The rectangles of a shape list have pairwise distinct (top, left).
DistinctPositions(objs) ==
    \A i, j \in 1..Len(objs) :
        (i # j /\ objs[i].type = "rect" /\ objs[j].type = "rect")
            => <<objs[i].top, objs[i].left>> # <<objs[j].top, objs[j].left>>

\* C3: for a reported shape list whose rectangles have pairwise distinct
\* (top, left), the note fields note_rect_0, note_rect_1, ... belong to
\* exactly the rectangles of the list, each once, in ascending order of top,
\* then left; the other shapes get no note field.
C3_FieldsInPositionOrder ==
    \A s \in Sessions :
        (HasReported(s) /\ DistinctPositions(Reported(s))) =>
            LET rects == out[s].rects
            IN  /\ \A k \in 1..Len(Reported(s)) :
                       Cardinality({j \in 1..Len(rects) : rects[j] = Reported(s)[k]})
                           = IF Reported(s)[k].type = "rect" THEN 1 ELSE 0
                /\ \A j \in 1..Len(rects) :
                       \E k \in 1..Len(Reported(s)) : rects[j] = Reported(s)[k]
                /\ \A i, j \in 1..Len(rects) :
                       i < j => \/ rects[i].top < rects[j].top
                                \/ /\ rects[i].top = rects[j].top
                                   /\ rects[i].left < rects[j].left

\* Three shapes are reported, a stroke among them, and the rectangle drawn
\* last has the first note field.
C3_Witness ==
    /\ HasReported("s1")
    /\ DistinctPositions(Reported("s1"))
    /\ Len(Reported("s1")) = 3
    /\ Reported("s1")[1].type = "path"
    /\ Len(out["s1"].rects) = 2
    /\ out["s1"].rects[1] = Reported("s1")[3]
    /\ out["s1"].rects[1].left > out["s1"].rects[2].left

\* C4: the exported text is the general-notes block followed by one
\* SELECTION block per bound rectangle, numbered from 1 in field order, and
\* nothing else.
C4_ExportText ==
    \A s \in Sessions :
        out[s].outcome = "done" =>
            LET text == out[s].text
                k == Len(out[s].rects)
            IN  /\ Len(text) = 3 + 5 * k
                /\ text[1] = "GENERAL NOTES:\n"
                /\ text[2] = general_note[s]
                /\ text[3] = "\n\n"
                /\ \A i \in 0..(k - 1) :
                       /\ text[5 * i + 4] = "SELECTION #"
                       /\ text[5 * i + 5] = <<"1", "2", "3", "4">>[i + 1]
                       /\ text[5 * i + 6] = ":\n"
                       /\ text[5 * i + 7] = note_rect[s][i]
                       /\ text[5 * i + 8] = "\n\n"
                /\ (~HasReported(s) \/ FilterRects(Reported(s)) = <<>>)
                       => text = <<"GENERAL NOTES:\n", general_note[s], "\n\n">>

\* The text of a project with general note "hi" and two rectangles with
\* different notes is offered for download.
C4_Witness ==
    /\ out["s1"].text_offered
    /\ general_note["s1"] = "hi"
    /\ Len(out["s1"].rects) = 2
    /\ note_rect["s1"][0] = "a"
    /\ note_rect["s1"][1] = "b"

\* The image and drawing state of session s: the two files, the session's
\* image and seed entries, the value of its drawing surface, and the image
\* and seed its last run put on the page.
ImageAndDrawingState(s) ==
    <<stateFile, imageFile, canvas_init[s], last_file_id[s], cached_image[s],
      canvas_value[s], out[s].image, out[s].seed>>

\* C5: a refresh of a session that follows an event of the same session with
\* no new input shows the same image, seed, rectangles, note bindings and text
\* as the run before it and leaves the image and drawing state as it is; a
\* run triggered by a keystroke in a note field leaves the image and drawing
\* state as it is too.
C5_RefreshIdempotent ==
    [][\A s \in Sessions :
          (last.session = s /\ last'.session = s) =>
              /\ last'.kind = "refresh" =>
                    /\ ImageAndDrawingState(s)' = ImageAndDrawingState(s)
                    /\ out'[s] = [out[s] EXCEPT !.loaded = FALSE]
                    /\ note_rect'[s] = note_rect[s]
                    /\ general_note'[s] = general_note[s]
              /\ last'.kind \in {"note", "general"} =>
                    ImageAndDrawingState(s)' = ImageAndDrawingState(s)]_vars

\* A refresh with no new input has run in a session that was started from a
\* saved drawing, shows an image and has reported a different drawing since.
C5_Witness ==
    \E s \in Sessions :
        /\ last = [kind |-> "refresh", session |-> s]
        /\ HasReported(s)
        /\ out[s].seed.tag = "dict"
        /\ out[s].seed # canvas_value[s].json_data
        /\ general_note[s] = "hi"

\* The project state of session s an upload could overwrite.
ProjectState(s) ==
    <<imageFile, stateFile, last_file_id[s], cached_image[s], canvas_init[s],
      canvas_value[s], note_rect[s], general_note[s]>>

\* C6: an upload that cannot be decoded, arriving in a session that shows a
\* project, leaves the persisted image, last_file_id, the cached image, the
\* seed drawing, the persisted snapshot and the notes as they were.
C6_FailedLoadKeepsProject ==
    [][\A s \in Sessions :
          ( /\ CanvasShown(s)
            /\ last' = [kind |-> "upload", session |-> s]
            /\ ~Decodable(Bytes(uploaded_file'[s])) )
              => ProjectState(s)' = ProjectState(s)]_vars

\* An undecodable upload has just failed in a session that was started from
\* a saved drawing and holds an image, a last_file_id and a rectangle note.
C6_Witness ==
    /\ last = [kind |-> "upload", session |-> "s1"]
    /\ out["s1"].outcome = "exception"
    /\ imageFile = "pngA"
    /\ last_file_id["s1"] = "fA"
    /\ canvas_init["s1"].tag = "dict"
    /\ stateFile.tag = "json"
    /\ note_rect["s1"][0] = "a"

\* C7: a refresh whose uploaded bytes cannot be decoded still runs to
\* completion.
C7_DecodeFailureNotFatal ==
    \A s \in Sessions :
        (Started(s) /\ uploaded_file[s] # NoUpload
                    /\ ~Decodable(Bytes(uploaded_file[s])))
            => out[s].outcome = "done"

\* C8: every completed refresh that shows an image offers the text download
\* with the general block and one block per bound rectangle; when there is no
\* overlay bitmap or the composite fails, a message stands in for the image
\* download only.
C8_TextExportIndependent ==
    \A s \in Sessions :
        (out[s].outcome = "done" /\ out[s].image # "None") =>
            /\ out[s].text_offered
            /\ Len(out[s].text) = 3 + 5 * Len(out[s].rects)
            /\ out[s].text[2] = general_note[s]
            /\ \A i \in 0..(Len(out[s].rects) - 1) :
                   out[s].text[5 * i + 7] = note_rect[s][i]
            /\ canvas_value[s].image_data = "none" => out[s].image_artifact = "info"
            /\ canvas_value[s].image_data = "bad" => out[s].image_artifact = "error"
            /\ canvas_value[s].image_data = "ok" => out[s].image_artifact = "download"

\* The composite has failed in a refresh with a general note and a rectangle
\* note, and the text is offered.
C8_Witness ==
    /\ out["s1"].image_artifact = "error"
    /\ out["s1"].text_offered
    /\ general_note["s1"] = "hi"
    /\ Len(out["s1"].rects) = 2
    /\ note_rect["s1"][1] = "a"

\* What session s observes: the image and the seed its next refresh shows,
\* and the persisted snapshot.
Observed(s) ==
    <<Script(View(s)).out.image, Script(View(s)).out.seed, stateFile>>

\* C9: no event of one session changes the image, the seed or the persisted
\* snapshot another running session observes.
C9_SessionsIsolated ==
    [][\A s \in Sessions :
          (Started(s) /\ last'.session # s) => Observed(s)' = Observed(s)]_vars

\* What the run before the step showed; a new session has shown nothing.
Before(s) == IF last'.kind = "start" THEN NoOutput ELSE out[s]

\* C10: the seed passed to the drawing surface differs from the one of the
\* session's previous refresh only in a refresh that shows another image or
\* follows Reset Project, and the saved snapshot is read in the first refresh
\* of a session only.
C10_ReseedOnlyOnChangeOrReset ==
    [][\A s \in Sessions :
          last'.session = s =>
              /\ out'[s].seed # Before(s).seed
                    => (out'[s].image # Before(s).image \/ last'.kind = "reset")
              /\ out'[s].loaded => last'.kind = "start"]_vars

\* A session started from a saved drawing has drawn on: its seed is still
\* the drawing it was started with, the snapshot file holds a later one.
C10_Witness ==
    /\ last = [kind |-> "add", session |-> "s1"]
    /\ out["s1"].seed.tag = "dict"
    /\ stateFile.tag = "json"
    /\ out["s1"].seed.objects # stateFile.objects
    /\ Len(stateFile.objects) = 2

\* The upload of session s in this step is decoded and has another file_id
\* than last_file_id.
ImageChanged(s) ==
    /\ last' = [kind |-> "upload", session |-> s]
    /\ uploaded_file'[s] # NoUpload
    /\ out'[s].outcome = "done"
    /\ uploaded_file'[s] # last_file_id[s]

\* The drawing a seed holds; a seed of None holds none.
SeedObjects(seed) == IF seed.tag = "dict" THEN seed.objects ELSE <<>>

ImageIdentity(s) ==
    IF uploaded_file[s] # NoUpload THEN uploaded_file[s] ELSE imageFile

\* Session s has invoked the drawing surface in its previous refresh and
\* invokes it in this one.
CanvasInBoth(s) ==
    /\ last'.session = s
    /\ Before(s).key # "none"
    /\ out'[s].key # "none"

WellFormedRect(obj) ==
    /\ {"type", "top", "left"} \subseteq DOMAIN obj
    /\ obj.type = "rect"

\* C13: a refresh over a reported shape list completes, whatever entries
\* lack their type or their top/left; the note fields and the SELECTION
\* blocks are those of the well-formed rectangles, in order of (top, left).
C13_MalformedEntriesSkipped ==
    \A s \in Sessions :
        (last.session = s /\ HasReported(s)) =>
            LET good == {k \in 1..Len(Reported(s)) : WellFormedRect(Reported(s)[k])}
            IN  /\ out[s].outcome = "done"
                /\ Len(out[s].rects) = Cardinality(good)
                /\ Ids(out[s].rects) = {Reported(s)[k].id : k \in good}
                /\ Len(out[s].text) = 3 + 5 * Cardinality(good)
                /\ \A i, j \in 1..Len(out[s].rects) :
                       i < j => ~KeyLess(out[s].rects[j], out[s].rects[i])


\* Where the shape with this id stands in a reported list.
PlaceOf(objs, id) == CHOOSE k \in 1..Len(objs) : objs[k].id = id

\* C14: among the rectangles that have a note field, two with the same
\* (top, left) stand in the order in which the drawing surface reported them,
\* and a refresh that reports the same list again binds the same rectangles
\* to the same note indices.
C14_TiesInReportedOrder ==
    [][\A s \in Sessions :
          (last'.session = s /\ HasReported(s)') =>
              LET rects == out'[s].rects
                  objs  == Reported(s)'
              IN  /\ \A i, j \in 1..Len(rects) :
                         (i < j /\ Top(rects[i]) = Top(rects[j])
                                /\ Left(rects[i]) = Left(rects[j]))
                             => PlaceOf(objs, rects[i].id) < PlaceOf(objs, rects[j].id)
                  /\ (HasReported(s) /\ Reported(s) = objs
                          /\ out[s].outcome = "done")
                         => rects = out[s].rects]_vars

\* Two rectangles at the same position were reported, the one with the
\* greater id first, after a rectangle that sorts before both: the fields go
\* to 2, 4, 1.
C14_Witness ==
    /\ HasReported("s1")
    /\ Reported("s1") = <<Rect(4, <<20, 10>>), Rect(2, <<20, 5>>), Rect(1, <<20, 10>>)>>
    /\ Len(out["s1"].rects) = 3
    /\ out["s1"].rects[1].id = 2
    /\ out["s1"].rects[2].id = 4
    /\ out["s1"].rects[3].id = 1


\* C15: after a refresh in which the drawing surface reported a shape list,
\* the snapshot file holds exactly that list and the rectangles with a note
\* field are exactly the rectangles of that list; a shape deleted on the
\* surface is in neither.
C15_ShapeListReplaced ==
    \A s \in Sessions :
        (last.session = s /\ HasReported(s)) =>
            /\ stateFile = Json(Reported(s))
            /\ Len(out[s].rects) = Len(FilterRects(Reported(s)))
            /\ \A j \in 1..Len(out[s].rects) :
                   \E k \in 1..Len(Reported(s)) : out[s].rects[j] = Reported(s)[k]
            /\ Ids(out[s].rects) = Ids(FilterRects(Reported(s)))

\* A rectangle was deleted from a list of two: one is left, in the file
\* and among the note fields.
C15_Witness ==
    /\ last = [kind |-> "remove", session |-> "s1"]
    /\ HasReported("s1")
    /\ Len(Reported("s1")) = 1
    /\ stateFile.tag = "json"
    /\ Len(stateFile.objects) = 1
    /\ Len(out["s1"].rects) = 1


\* C16: after a run that loaded an uploaded image, the image displayed, the
\* image held in the session and the image in IMAGE_FILE are upright (the
\* orientation tag of the upload applied) and in mode RGBA.
C16_LoadYieldsCanonicalBitmap ==
    \A s \in Sessions :
        (last = [kind |-> "upload", session |-> s]
            /\ uploaded_file[s] # NoUpload /\ out[s].outcome = "done") =>
            /\ Upright(out[s].image) /\ Mode(out[s].image) = "RGBA"
            /\ Upright(cached_image[s]) /\ Mode(cached_image[s]) = "RGBA"
            /\ Upright(Decode(imageFile)) /\ Mode(Decode(imageFile)) = "RGBA"


\* C17: canvas_init of a session is set by the session's first run, to the
\* drawing in the snapshot file or to None, and is then changed by no run of
\* that session and no run of another one, whatever is written to the
\* snapshot file; Reset Project removes it and the run that follows sets it
\* again, to None since the file is gone.
C17_SeedSetOncePerSession ==
    [][\A s \in Sessions :
          /\ (last'.session # s \/ last'.kind \notin {"start", "reset"})
                => canvas_init'[s] = canvas_init[s]
          /\ last' = [kind |-> "start", session |-> s]
                => canvas_init'[s] = IF stateFile.tag = "json"
                                     THEN Dict(stateFile.objects)
                                     ELSE NoneValue
          /\ last' = [kind |-> "reset", session |-> s]
                => canvas_init'[s] = NoneValue
          /\ Started(s)' => canvas_init'[s].tag \in {"None", "dict"}]_vars

\* A session started without a snapshot has drawn a rectangle: the file
\* holds it, canvas_init is still None.
C17_Witness ==
    /\ last = [kind |-> "add", session |-> "s1"]
    /\ canvas_init["s1"].tag = "None"
    /\ stateFile.tag = "json"
    /\ Len(stateFile.objects) = 1


\* C18: a session has loaded an upload and its drawing surface has reported
\* a shape list; the session ends and a new one starts, with nothing picked
\* in the uploader.  The new session completes its first run showing the
\* image the earlier one held and seeding the canvas with the shape list the
\* earlier one reported last.
C18_RoundTripAcrossSessions ==
    [][\A s \in Sessions :
          (/\ last' = [kind |-> "start", session |-> s]
           /\ HasReported(s)
           /\ last_file_id[s] # "undefined") =>
              /\ uploaded_file'[s] = NoUpload
              /\ out'[s].outcome = "done"
              /\ out'[s].image = cached_image[s]
              /\ out'[s].seed = Dict(Reported(s))
              /\ canvas_init'[s] = Dict(Reported(s))]_vars

\* A new session with nothing uploaded shows the second image and is seeded
\* with two rectangles.
C18_Witness ==
    /\ last = [kind |-> "start", session |-> "s1"]
    /\ uploaded_file["s1"] = NoUpload
    /\ last_file_id["s1"] = "undefined"
    /\ out["s1"].image = "imgB"
    /\ out["s1"].seed.tag = "dict"
    /\ Len(out["s1"].seed.objects) = 2

\* C19: a session's first run that finds the snapshot file absent, or
\* holding no JSON document, sets canvas_init to None and completes; and
\* whenever a run reaches the canvas, the seed it passes is canvas_init, a
\* drawing or None.
C19_BadSnapshotNotFatal ==
    [][\A s \in Sessions :
          /\ (last' = [kind |-> "start", session |-> s]
                  /\ stateFile.tag \in {"absent", "garbage"})
                => /\ canvas_init'[s] = NoneValue
                   /\ out'[s].outcome = "done"
                   /\ out'[s].image = StoredImage([imageFile |-> imageFile])
          /\ (last'.session = s /\ out'[s].key # "none")
                => /\ out'[s].seed = canvas_init'[s]
                   /\ out'[s].seed.tag \in {"None", "dict"}]_vars

\* A session started on a damaged snapshot and a saved image: the canvas
\* is shown on the image with no seed.
C19_Witness ==
    /\ last = [kind |-> "start", session |-> "s1"]
    /\ stateFile = Garbage
    /\ out["s1"].outcome = "done"
    /\ out["s1"].image = "imgA"
    /\ out["s1"].key # "none"
    /\ out["s1"].seed = NoneValue

====
